---- MODULE Spec2Model ----
(***************************************************************************)
(* Model of phase1_d2c_remap.c: the Ducati-to-Chiron tiler block remap     *)
(* (tiler_assisted_phase1_D2CReMap), its reverse                           *)
(* (tiler_assisted_phase1_DeMap), the buffer-pointer -> tiler-ID cache     *)
(* (bufs, che_mutex) and the block geometry helpers (def_bpp, def_stride,  *)
(* def_size and the stride resolution inside the remap loop).              *)
(*                                                                         *)
(* The tiler driver (/dev/tiler: open, ioctl, close), mmap and munmap are  *)
(* the environment: every call may fail, and a call that succeeds has the  *)
(* effect its request asks for.                                            *)
(***************************************************************************)
EXTENDS Integers, Sequences, FiniteSets, TLC

\* ------------------------------------------------------------------ bounds

\* Largest number of blocks of one buffer in the model (the driver's
\* TILER_MAX_NUM_BLOCKS, scaled down).
MaxBlocks == 2

\* Number of ReMap and DeMap calls started in one behaviour.
MaxCalls == 3

\* Number of driver, mmap and munmap calls that fail in one behaviour though
\* they could have succeeded.
MaxFaults == 2

\* The resolver on its own: the lengths are up to GeoMaxPages pages plus a
\* part of a page, the reported heights 0 .. GeoMaxHeight and those around
\* the slack of 31 and 63 pages.
GeoMaxPages == 8

GeoMaxHeight == 3

\* ------------------------------------------------------- program constants

PAGE_SIZE == 4096

TILER_MAX_NUM_BLOCKS == MaxBlocks

REMAP_ERR_GENERIC == 1

\* What a failed ioctl or munmap returns.
SYSCALL_FAILED == -1

NULL == 0

Threads == {1, 2}

NoThread == 0

\* Pixel formats (tiler.h); PIXEL_FMT_x and TILFMT_x name the same values.
TILFMT_PAGE == "PAGE"

TILFMT_8BIT == "8BIT"

TILFMT_16BIT == "16BIT"

TILFMT_32BIT == "32BIT"

Formats == {TILFMT_PAGE, TILFMT_8BIT, TILFMT_16BIT, TILFMT_32BIT}

\* --------------------------------------------------------- block geometry

\* A def_bpp that takes every pixel for one byte.
def_bpp_OneByte(pixelFormat) == 1

\* def_bpp: bytes per pixel of a pixel format.
def_bpp(pixelFormat) ==
    IF pixelFormat = TILFMT_32BIT THEN 4
    ELSE IF pixelFormat = TILFMT_16BIT THEN 2 ELSE 1

\* def_stride: (PAGE_SIZE - 1 + width) & ~(PAGE_SIZE - 1), PAGE_SIZE a power
\* of two: width rounded up to a multiple of the page size.
def_stride(width) ==
    ((PAGE_SIZE - 1 + width) \div PAGE_SIZE) * PAGE_SIZE

\* def_size: size of a block in bytes.
def_size(blk) ==
    IF blk.fmt = TILFMT_PAGE
    THEN blk.len
    ELSE blk.height * def_stride(blk.width * def_bpp(blk.fmt))

\* A zeroed struct tiler_block_info (ZERO(buf)) with its ssptr set.
ZeroBlock(ssptr) ==
    [ssptr |-> ssptr, fmt |-> TILFMT_PAGE, len |-> 0, width |-> 0,
     height |-> 0, stride |-> 0, ptr |-> NULL]

\* Pages subtracted from the reported height's allocation (63 for 8-bit
\* blocks, 31 otherwise).
SlackPages(fmt) == IF fmt = TILFMT_8BIT THEN 63 ELSE 31

max_alloc_size(height) == height * PAGE_SIZE

\* max_alloc_size - SlackPages * PAGE_SIZE in bytes_t (unsigned 32 bit).  A
\* negative value d here stands for the wrapped value 2^32 + d.
min_alloc_size(fmt, height) ==
    max_alloc_size(height) - SlackPages(fmt) * PAGE_SIZE

\* (len + alloc - 1) / alloc in unsigned 32-bit arithmetic, for len < 2^31.
\* With alloc = 2^32 + d (d < 0): the sum wraps to len + d - 1 when that is
\* not negative, which is below alloc (quotient 0); otherwise it is
\* alloc + len - 1, at least alloc exactly when len >= 1 (quotient 1).
PageWidth(len, alloc) ==
    IF alloc > 0 THEN (len + alloc - 1) \div alloc
    ELSE IF len + alloc - 1 >= 0 THEN 0
    ELSE IF len >= 1 THEN 1 ELSE 0

\* A resolution that takes the page width of the smaller allocation.
min_page_width_Larger(blk, len) ==
    PageWidth(len, min_alloc_size(blk.fmt, blk.height))

min_page_width(blk, len) == PageWidth(len, max_alloc_size(blk.height))

\* max_page_width, lowered to the reported width in pages when above it.
max_page_width(blk, len) ==
    LET m == PageWidth(len, min_alloc_size(blk.fmt, blk.height))
        w == blk.width \div PAGE_SIZE
    IN  IF m > w THEN w ELSE m

\* One of the divisions of the stride resolution divides by zero.
ResolveTraps(blk, len) ==
    \/ max_alloc_size(blk.height) = 0
    \/ min_alloc_size(blk.fmt, blk.height) = 0
    \/ min_page_width(blk, len) = 0

\* The block after lines 237-267: a page block takes the caller's length, a
\* pixel block gets height, width and stride from the length and the smaller
\* page width.
ResolveBlock(blk, len) ==
    IF blk.fmt = TILFMT_PAGE
    THEN [blk EXCEPT !.len = len]
    ELSE LET mpw == min_page_width(blk, len)
             w == (PAGE_SIZE * mpw) \div def_bpp(blk.fmt)
         IN  [blk EXCEPT !.height = (len \div PAGE_SIZE) \div mpw,
                         !.width = w,
                         !.stride = w]

\* ------------------------------------------------------------ environment

\* Device pointers.  The SysLink translation is commented out in the
\* source (line 216), so a block's ssptr is its dsptr; 0 is the pointer that
\* does not translate.
PtrPage == 65552

Ptr8Bit == 131072

\* The blocks a caller asks for: a device pointer and the byte length the
\* caller passes for it.
Requests == {<<0, 4096>>, <<PtrPage, 4096>>, <<Ptr8Bit, 13192>>}

\* What the driver holds for a block (TILIOC_QUERY_BLK fills fmt and dim):
\* PtrPage is a page block that starts 16 bytes into its page, Ptr8Bit an
\* 8-bit area one page wide and two rows high.
DriverBlock(ssptr) ==
    IF ssptr = PtrPage
    THEN [ZeroBlock(ssptr) EXCEPT !.fmt = TILFMT_PAGE, !.len = PAGE_SIZE]
    ELSE [ZeroBlock(ssptr) EXCEPT !.fmt = TILFMT_8BIT, !.width = 4096,
                                  !.height = 2]

\* Buffer ids (mmap offsets) the driver hands out on TILIOC_RBUF.
Offsets == {4096, 8192}

\* Page-aligned addresses mmap returns, far enough apart that regions never
\* overlap.
Bases == {1048576, 2097152}

\* Pointers a caller passes to DeMap: each base, and each base plus the
\* sub-page offset of PtrPage.
DemapPtrs == Bases \cup {b + (PtrPage % PAGE_SIZE) : b \in Bases}

\* File descriptor of thread t's session.
Fd(t) == t + 2

\* -------------------------------------------------------------------- state

VARIABLES
    pc,          \* where each thread is in its call ("idle": in no call)
    arg,         \* the call's first argument: num_blocks (ReMap), bufPtr (DeMap)
    ix,          \* int ix
    size,        \* bytes_t size
    td,          \* int td: the session's descriptor, -1 when none
    bufPtr,      \* void *bufPtr
    buf,         \* struct tiler_buf_info buf
    ad,          \* struct _ReMapData *ad of remap_cache_del: the position of
                 \* the record found in bufs, 0 when none
    ret,         \* int ret of DeMap; once idle, what the last call returned
    log,         \* what the thread's call did so far: the driver and cache
                 \* operations issued, the failures printed (P) and the
                 \* checks printed as failed (CHK_I)
    bufs,        \* the cache: the list of _ReMapData, head first
    bufs_inited, \* static int bufs_inited
    che_mutex,   \* the thread holding che_mutex, NoThread when free
    registered,  \* driver: buffer id -> block list of each registered buffer
    mapped,      \* process: base -> length and backing buffer id (the
                 \* mmap offset) of each mapped region
    sessions,    \* driver: the open descriptors
    pending,     \* per pointer: records added and not yet found by a delete
    ncalls,      \* calls started so far
    nfaults,     \* failures injected so far
    geo          \* the geometry resolver run on its own (ResolveSpec)

vars == <<pc, arg, ix, size, td, bufPtr, buf, ad, ret, log, bufs,
          bufs_inited, che_mutex, registered, mapped, sessions, pending,
          ncalls, nfaults, geo>>

locals == <<arg, ix, size, td, bufPtr, buf, ad>>

cache == <<bufs, bufs_inited, che_mutex>>

driver == <<registered, mapped, sessions>>

\* ZERO(buf)
ZeroBuf == [num_blocks |-> 0, offset |-> 0, blocks |-> <<>>]

GeoIdle == [stage |-> "idle"]

\* The state before any call.
MainInit ==
    /\ pc = [t \in Threads |-> "idle"]
    /\ arg = [t \in Threads |-> 0]
    /\ ix = [t \in Threads |-> 0]
    /\ size = [t \in Threads |-> 0]
    /\ td = [t \in Threads |-> -1]
    /\ bufPtr = [t \in Threads |-> NULL]
    /\ buf = [t \in Threads |-> ZeroBuf]
    /\ ad = [t \in Threads |-> 0]
    /\ ret = [t \in Threads |-> 0]
    /\ log = [t \in Threads |-> {}]
    /\ bufs = <<>>
    /\ bufs_inited = 0
    /\ che_mutex = NoThread
    /\ registered = <<>>
    /\ mapped = <<>>
    /\ sessions = {}
    /\ pending = [p \in DemapPtrs |-> 0]
    /\ ncalls = 0
    /\ nfaults = 0

Init == MainInit /\ geo = GeoIdle

\* A close that leaves the session open.
Close_Leak(fds, fd) == fds

\* The open sessions after close(fd) (lines 311 and 358).
Close(fds, fd) == fds \ {fd}

\* The call of thread t returns value: its frame (the locals) is gone, and
\* so is its log.
Return(t, value) ==
    /\ pc' = [pc EXCEPT ![t] = "idle"]
    /\ ret' = [ret EXCEPT ![t] = value]
    /\ arg' = [arg EXCEPT ![t] = 0]
    /\ ix' = [ix EXCEPT ![t] = 0]
    /\ size' = [size EXCEPT ![t] = 0]
    /\ td' = [td EXCEPT ![t] = -1]
    /\ bufPtr' = [bufPtr EXCEPT ![t] = NULL]
    /\ buf' = [buf EXCEPT ![t] = ZeroBuf]
    /\ ad' = [ad EXCEPT ![t] = 0]
    /\ log' = [log EXCEPT ![t] = {}]

\* A call of the environment fails though it could have succeeded.
Fault == nfaults < MaxFaults /\ nfaults' = nfaults + 1

NoFault == UNCHANGED nfaults

Logged(t, what) == log' = [log EXCEPT ![t] = @ \cup what]

Goto(t, label) == pc' = [pc EXCEPT ![t] = label]

\* Remove key k from function f.
Without(f, k) == [x \in DOMAIN f \ {k} |-> f[x]]

\* Sum of def_size over the first n blocks of a block list.
RECURSIVE SumSize(_, _)
SumSize(blocks, n) ==
    IF n = 0 THEN 0 ELSE SumSize(blocks, n - 1) + def_size(blocks[n])

\* ---------------------------------------- tiler_assisted_phase1_D2CReMap

\* Line 191: the call with num_blocks = n.
R_Call(t) ==
    /\ pc[t] = "idle"
    /\ ncalls < MaxCalls
    /\ ncalls' = ncalls + 1
    /\ \E n \in 0 .. TILER_MAX_NUM_BLOCKS + 1 :
          arg' = [arg EXCEPT ![t] = n]
    /\ Goto(t, "r_check")
    /\ UNCHANGED <<ix, size, td, bufPtr, buf, ad, ret, log, cache, driver,
                   pending, nfaults, geo>>

\* A range check that lets a count of 0 through.
ValidNumBlocks_FromZero(n) == n >= 0 /\ n <= TILER_MAX_NUM_BLOCKS

\* The num_blocks ReMap accepts (line 197).
ValidNumBlocks(n) == n > 0 /\ n <= TILER_MAX_NUM_BLOCKS

\* Lines 196-204: a count out of range goes to the return of line 198.
R_Check(t) ==
    /\ pc[t] = "r_check"
    /\ \/ /\ ~ValidNumBlocks(arg[t])
          /\ Goto(t, "r_reject")
          /\ UNCHANGED <<size, buf>>
       \/ /\ ValidNumBlocks(arg[t])
          /\ buf' = [buf EXCEPT ![t] = [ZeroBuf EXCEPT !.num_blocks = arg[t]]]
          /\ size' = [size EXCEPT ![t] = 0]
          /\ Goto(t, "r_open")
    /\ UNCHANGED <<arg, ix, td, bufPtr, ad, ret, log, cache, driver, pending,
                   ncalls, nfaults, geo>>

\* Line 198: return R_P(NULL).
R_Reject(t) ==
    /\ pc[t] = "r_reject"
    /\ Return(t, NULL)
    /\ UNCHANGED <<cache, driver, pending, ncalls, nfaults, geo>>

\* Lines 206-210: open the driver; NULL when it does not open.
R_Open(t) ==
    /\ pc[t] = "r_open"
    /\ \/ /\ Fault
          /\ Return(t, NULL)
          /\ UNCHANGED sessions
       \/ /\ td' = [td EXCEPT ![t] = Fd(t)]
          /\ sessions' = sessions \cup {Fd(t)}
          /\ bufPtr' = [bufPtr EXCEPT ![t] = NULL]
          /\ ix' = [ix EXCEPT ![t] = 0]
          /\ Logged(t, {"open"})
          /\ Goto(t, "r_block")
          /\ NoFault
          /\ UNCHANGED <<arg, size, buf, ad, ret>>
    /\ UNCHANGED <<cache, registered, mapped, pending, ncalls, geo>>

\* The checks a resolved block fails (CHK_I at lines 256 and 268).  CHK_I
\* is a statement of its own: no branch of the function depends on it.
FailedChecks(reported, blk, len) ==
    (IF reported.fmt # TILFMT_PAGE
        /\ ~(min_page_width(reported, len) <= max_page_width(reported, len))
     THEN {"chk_width"} ELSE {})
    \cup
    (IF ~(def_size(blk) = len) THEN {"chk_size"} ELSE {})

\* A loop that goes on to the registration after a failed block.
BlockFailed_GoesOn == "r_rbuf"

\* Where the loop goes when a block does not translate or is not the
\* driver's: goto FAIL (lines 219 and 231).
BlockFailed == "r_close"

\* Lines 213-272, one pass of the loop: block ix is translated, queried and
\* resolved, and its size added.  dsptrs[ix] and lengths[ix] are chosen when
\* the loop reads them.  On the way to FAIL the block written so far is
\* never read again and is left out.  The blocks of DriverBlock and the
\* lengths of Requests divide by no zero (ResolveTraps).
R_Block(t) ==
    /\ pc[t] = "r_block"
    /\ \E rq \in Requests :
        LET d == rq[1]
            len == rq[2]
            reported == DriverBlock(d)
            blk == ResolveBlock(reported, len)
        IN  \/ \* the pointer does not translate (lines 217-220)
               /\ d = 0
               /\ Logged(t, {"no_ssptr"})
               /\ Goto(t, BlockFailed)
               /\ UNCHANGED <<ix, size, buf, nfaults>>
            \/ \* TILIOC_QUERY_BLK fails (lines 228-232)
               /\ d # 0
               /\ Fault
               /\ Logged(t, {"query_blk", "no_block"})
               /\ Goto(t, BlockFailed)
               /\ UNCHANGED <<ix, size, buf>>
            \/ \* TILIOC_QUERY_BLK returns 0 and clears the ssptr
               /\ d # 0
               /\ Fault
               /\ Logged(t, {"query_blk", "no_block"})
               /\ Goto(t, BlockFailed)
               /\ UNCHANGED <<ix, size, buf>>
            \/ \* the block is known: resolve it
               /\ d # 0
               /\ reported.fmt # TILFMT_PAGE => ~ResolveTraps(reported, len)
               /\ NoFault
               /\ buf' = [buf EXCEPT ![t].blocks = Append(@, blk)]
               /\ size' = [size EXCEPT ![t] = @ + def_size(blk)]
               /\ Logged(t, {"query_blk"} \cup FailedChecks(reported, blk, len))
               /\ ix' = [ix EXCEPT ![t] = @ + 1]
               /\ Goto(t, IF ix[t] + 1 < buf[t].num_blocks
                          THEN "r_block" ELSE "r_rbuf")
    /\ UNCHANGED <<arg, td, bufPtr, ad, ret, cache, driver, pending, ncalls,
                   geo>>

\* The ids TILIOC_RBUF may hand out: those of no registered buffer.
FreeOffsets(buffers) == Offsets \ DOMAIN buffers

\* A registration check that looks at the ioctl's result only.
RegisteredOk_ResultOnly(res, offset) == res = 0

\* Line 278: the registration counts only when the ioctl returned 0 and set
\* a nonzero buf.offset.
RegisteredOk(res, offset) == res = 0 /\ offset # 0

\* Lines 274-278: TILIOC_RBUF registers the block list; the driver sets
\* buf.offset.
R_RBuf(t) ==
    /\ pc[t] = "r_rbuf"
    /\ Logged(t, {"rbuf"})
    /\ \/ \* the ioctl fails: the driver has no id left, or a fault
          /\ IF FreeOffsets(registered) = {} THEN NoFault ELSE Fault
          /\ Goto(t, IF RegisteredOk(SYSCALL_FAILED, buf[t].offset)
                     THEN "r_mmap" ELSE "r_close")
          /\ UNCHANGED <<buf, registered>>
       \/ \* the ioctl returns 0 and no offset
          /\ Fault
          /\ Goto(t, IF RegisteredOk(0, buf[t].offset)
                     THEN "r_mmap" ELSE "r_close")
          /\ UNCHANGED <<buf, registered>>
       \/ \E o \in FreeOffsets(registered) :
          /\ buf' = [buf EXCEPT ![t].offset = o]
          /\ registered' = registered @@ (o :> buf[t].blocks)
          /\ NoFault
          /\ Goto(t, IF RegisteredOk(0, o) THEN "r_mmap" ELSE "r_close")
    /\ UNCHANGED <<arg, ix, size, td, bufPtr, ad, ret, cache, mapped,
                   sessions, pending, ncalls, geo>>

\* The addresses mmap may return: the bases no region is mapped at.
FreeBases(regions) == Bases \ DOMAIN regions

\* A failed mapping that goes to FAIL without the unregistration.
MapFailed_NoCleanup == "r_close"

\* Where ReMap goes when the mapping failed: to the unregistration of
\* lines 290-294.
MapFailed == "r_urbuf"

CanMap(regions, len) == len > 0 /\ FreeBases(regions) # {}

\* Lines 280-291: mmap of size bytes at buf.offset; the pointer is moved by
\* the sub-page offset of the first block.  mmap of no bytes fails.
R_Mmap(t) ==
    /\ pc[t] = "r_mmap"
    /\ Logged(t, {"mmap"})
    /\ \/ \* MAP_FAILED: no bytes, no address left, or a fault
          /\ IF ~CanMap(mapped, size[t]) THEN NoFault ELSE Fault
          /\ bufPtr' = [bufPtr EXCEPT ![t] = NULL]
          /\ Goto(t, MapFailed)
          /\ UNCHANGED mapped
       \/ /\ size[t] > 0
          /\ \E b \in FreeBases(mapped) :
              /\ mapped' = mapped @@
                    (b :> [len |-> size[t], offset |-> buf[t].offset])
              /\ bufPtr' = [bufPtr EXCEPT
                              ![t] = b + (buf[t].blocks[1].ssptr % PAGE_SIZE)]
          /\ NoFault
          /\ Goto(t, "r_lock")
    /\ UNCHANGED <<arg, ix, size, td, buf, ad, ret, cache, registered,
                   sessions, pending, ncalls, geo>>

\* Lines 290-294: the mapping failed: TILIOC_URBUF.  A_I prints when the
\* ioctl fails; the function goes on either way.
R_Urbuf(t) ==
    /\ pc[t] = "r_urbuf"
    /\ Logged(t, {"urbuf"})
    /\ \/ /\ registered' = Without(registered, buf[t].offset)
          /\ NoFault
       \/ /\ Fault
          /\ UNCHANGED registered
    /\ Goto(t, "r_close")
    /\ UNCHANGED <<locals, ret, cache, mapped, sessions, pending, ncalls, geo>>

\* ------------------------------------------------------------ the cache

\* A pthread_mutex_lock that does not wait (the cache without its mutex).
MutexFree_NoWait(mutex) == TRUE

\* pthread_mutex_lock(&che_mutex) returns once the mutex is free.
MutexFree(mutex) == mutex = NoThread

\* A pthread_mutex_unlock that is forgotten: the mutex stays with its holder.
MutexUnlock_Forgotten(mutex) == mutex

\* The mutex after pthread_mutex_unlock(&che_mutex) (lines 143, 167, 171).
MutexUnlock(mutex) == NoThread

\* remap_cache_add's list after DLIST_MADD_BEFORE(bufs, ad, link): the new
\* record goes before the list head, that is last.
CacheAdd(list, ptr, tiler_id) ==
    Append(list, [bufPtr |-> ptr, tiler_id |-> tiler_id])

\* A scan that takes the first record whatever its pointer.
CacheFind_First(list, ptr) == IF Len(list) > 0 THEN 1 ELSE 0

\* Position of the first record DLIST_MLOOP finds for ptr (line 163), 0 when
\* none.
CacheFind(list, ptr) ==
    IF \E i \in 1 .. Len(list) : list[i].bufPtr = ptr
    THEN CHOOSE i \in 1 .. Len(list) :
            /\ list[i].bufPtr = ptr
            /\ \A j \in 1 .. i - 1 : list[j].bufPtr # ptr
    ELSE 0

\* A remap_cache_del that leaves the record in the list.
CacheRemove_Keep(list, i) == list

\* The list after DLIST_REMOVE of the record at position i (line 165).
CacheRemove(list, i) ==
    IF i \in 1 .. Len(list)
    THEN [j \in 1 .. Len(list) - 1 |-> IF j < i THEN list[j] ELSE list[j + 1]]
    ELSE list

\* pthread_mutex_lock(&che_mutex) of remap_cache_add (line 137).
R_Lock(t) ==
    /\ pc[t] = "r_lock"
    /\ MutexFree(che_mutex)
    /\ che_mutex' = t
    /\ Goto(t, "r_add")
    /\ UNCHANGED <<locals, ret, log, bufs, bufs_inited, driver, pending, ncalls,
                   nfaults, geo>>

\* remap_cache_add under the mutex (lines 138-143): init(), the new record,
\* the unlock.
R_Add(t) ==
    /\ pc[t] = "r_add"
    /\ bufs_inited' = 1
    /\ bufs' = CacheAdd(bufs, bufPtr[t], buf[t].offset)
    /\ che_mutex' = MutexUnlock(che_mutex)
    /\ pending' = [pending EXCEPT ![bufPtr[t]] = @ + 1]
    /\ Logged(t, {"cache_add"})
    /\ Goto(t, "r_fill")
    /\ UNCHANGED <<locals, ret, driver, ncalls, nfaults, geo>>

\* A fill that gives every block the pointer of the first.
FillPointers_AllAtBase(blocks, base) ==
    [k \in 1 .. Len(blocks) |-> [blocks[k] EXCEPT !.ptr = base]]

\* The block list with each block's ptr at its running offset from base.
FillPointers(blocks, base) ==
    [k \in 1 .. Len(blocks) |->
        [blocks[k] EXCEPT !.ptr = base + SumSize(blocks, k - 1)]]

\* Lines 301-307: fill out the blocks' pointers.
R_Fill(t) ==
    /\ pc[t] = "r_fill"
    /\ buf' = [buf EXCEPT ![t].blocks = FillPointers(@, bufPtr[t])]
    /\ size' = [size EXCEPT ![t] = SumSize(buf[t].blocks, buf[t].num_blocks)]
    /\ ix' = [ix EXCEPT ![t] = buf[t].num_blocks]
    /\ Goto(t, "r_close")
    /\ UNCHANGED <<arg, td, bufPtr, ad, ret, log, cache, driver, pending,
                   ncalls, nfaults, geo>>

\* Lines 310-313, FAIL: close(td) and return bufPtr.
R_Close(t) ==
    /\ pc[t] = "r_close"
    /\ sessions' = Close(sessions, td[t])
    /\ Return(t, bufPtr[t])
    /\ UNCHANGED <<cache, registered, mapped, pending, ncalls, nfaults, geo>>

\* ------------------------------------------- tiler_assisted_phase1_DeMap

\* Lines 316-322: the call with bufPtr = p.
D_Call(t) ==
    /\ pc[t] = "idle"
    /\ \E p \in DemapPtrs :
        /\ arg' = [arg EXCEPT ![t] = p]
        /\ bufPtr' = [bufPtr EXCEPT ![t] = p]
    /\ ret' = [ret EXCEPT ![t] = REMAP_ERR_GENERIC]
    /\ buf' = [buf EXCEPT ![t] = ZeroBuf]
    /\ Goto(t, "d_open")
    /\ ncalls < MaxCalls
    /\ ncalls' = ncalls + 1
    /\ UNCHANGED <<ix, size, td, ad, log, cache, driver, pending, nfaults,
                   geo>>

\* Lines 324-326: open the driver; the generic error when it does not open.
D_Open(t) ==
    /\ pc[t] = "d_open"
    /\ \/ /\ Fault
          /\ Return(t, ret[t])
          /\ UNCHANGED sessions
       \/ /\ td' = [td EXCEPT ![t] = Fd(t)]
          /\ sessions' = sessions \cup {Fd(t)}
          /\ Logged(t, {"open"})
          /\ Goto(t, "d_lock")
          /\ NoFault
          /\ UNCHANGED <<arg, ix, size, bufPtr, buf, ad, ret>>
    /\ UNCHANGED <<cache, registered, mapped, pending, ncalls, geo>>

\* pthread_mutex_lock(&che_mutex) of remap_cache_del (line 160).
D_Lock(t) ==
    /\ pc[t] = "d_lock"
    /\ MutexFree(che_mutex)
    /\ che_mutex' = t
    /\ Goto(t, "d_scan")
    /\ UNCHANGED <<locals, ret, log, bufs, bufs_inited, driver, pending, ncalls,
                   nfaults, geo>>

\* remap_cache_del under the mutex, lines 161-164: init(), the scan of the
\* list for bufPtr and the read of the found record's ID (0 without one),
\* which line 332 puts into buf.offset.
D_Scan(t) ==
    /\ pc[t] = "d_scan"
    /\ bufs_inited' = 1
    /\ LET i == CacheFind(bufs, bufPtr[t])
       IN  /\ ad' = [ad EXCEPT ![t] = i]
           /\ buf' = [buf EXCEPT
                        ![t].offset = IF i = 0 THEN 0 ELSE bufs[i].tiler_id]
    /\ Goto(t, "d_del")
    /\ UNCHANGED <<arg, ix, size, td, bufPtr, ret, log, bufs, che_mutex,
                   driver, pending, ncalls, nfaults, geo>>

\* remap_cache_del under the mutex, lines 165-172, and lines 332-333: the
\* record found is removed and the mutex released; without a record the call
\* goes to close.
D_Del(t) ==
    /\ pc[t] = "d_del"
    /\ bufs' = CacheRemove(bufs, ad[t])
    /\ che_mutex' = MutexUnlock(che_mutex)
    /\ pending' = [pending EXCEPT
                     ![bufPtr[t]] = IF buf[t].offset # 0 THEN @ - 1 ELSE @]
    /\ Logged(t, IF buf[t].offset # 0 THEN {"cache_hit"} ELSE {"cache_miss"})
    /\ Goto(t, IF buf[t].offset # 0 THEN "d_qbuf" ELSE "d_close")
    /\ UNCHANGED <<locals, ret, bufs_inited, driver, ncalls, nfaults, geo>>

\* A demap that goes on to unregister and unmap after a failed query.
QueryFailed_GoesOn == "d_urbuf"

\* Where DeMap goes when TILIOC_QBUF failed: past the block of lines
\* 341-355, to close.
QueryFailed == "d_close"

\* Lines 334-337: TILIOC_QBUF fetches the buffer's block list; ret is the
\* ioctl's result.
D_QBuf(t) ==
    /\ pc[t] = "d_qbuf"
    /\ Logged(t, {"qbuf"})
    /\ \/ \* the ioctl fails: the driver has no such buffer, or a fault
          /\ IF buf[t].offset \notin DOMAIN registered THEN NoFault ELSE Fault
          /\ ret' = [ret EXCEPT ![t] = SYSCALL_FAILED]
          /\ Goto(t, QueryFailed)
          /\ UNCHANGED buf
       \/ /\ buf[t].offset \in DOMAIN registered
          /\ NoFault
          /\ ret' = [ret EXCEPT ![t] = 0]
          /\ buf' = [buf EXCEPT
                       ![t].blocks = registered[buf[t].offset],
                       ![t].num_blocks = Len(registered[buf[t].offset])]
          /\ Goto(t, "d_urbuf")
    /\ UNCHANGED <<arg, ix, size, td, bufPtr, ad, cache, driver, pending,
                   ncalls, geo>>

\* A demap that skips the unmapping when TILIOC_URBUF failed.
Unregistered_StopsOnError(result) ==
    IF result = 0 THEN "d_munmap" ELSE "d_close"

\* Where DeMap goes after TILIOC_URBUF returned result: lines 344-354 test
\* no result, the unmapping follows.
Unregistered(result) == "d_munmap"

\* Lines 341-345: TILIOC_URBUF; ret is the ioctl's result.
D_Urbuf(t) ==
    /\ pc[t] = "d_urbuf"
    /\ Logged(t, {"urbuf"})
    /\ \/ /\ Fault
          /\ ret' = [ret EXCEPT ![t] = SYSCALL_FAILED]
          /\ Goto(t, Unregistered(SYSCALL_FAILED))
          /\ UNCHANGED registered
       \/ /\ NoFault
          /\ ret' = [ret EXCEPT ![t] = 0]
          /\ Goto(t, Unregistered(0))
          /\ registered' = Without(registered, buf[t].offset)
    /\ UNCHANGED <<locals, cache, mapped, sessions, pending, ncalls, geo>>

\* An unmapping that starts at the pointer itself.
RoundDown_NotAtAll(x) == x

\* ROUND_DOWN_TO2POW(x, PAGE_SIZE)
RoundDown(x) == (x \div PAGE_SIZE) * PAGE_SIZE

\* The regions after a munmap of len bytes at addr that succeeded: the
\* region at addr is gone when len covers it, and keeps its rest otherwise.
Unmapped(regions, addr, len) ==
    IF addr \notin DOMAIN regions THEN regions
    ELSE IF len >= regions[addr].len THEN Without(regions, addr)
    ELSE [regions EXCEPT ![addr].len = @ - len]

\* ERR_ADD(e, exp): e keeps its error, and takes exp's when it had none.
ErrAdd(e, result) == IF e # 0 THEN e ELSE result

\* Lines 347-354: the size of the block list, then munmap at the page of
\* bufPtr.  munmap of no bytes fails.
D_Munmap(t) ==
    /\ pc[t] = "d_munmap"
    /\ Logged(t, {"munmap"})
    /\ LET total == SumSize(buf[t].blocks, buf[t].num_blocks)
           addr == RoundDown(bufPtr[t])
       IN  /\ size' = [size EXCEPT ![t] = total]
           /\ ix' = [ix EXCEPT ![t] = buf[t].num_blocks]
           /\ bufPtr' = [bufPtr EXCEPT ![t] = addr]
           /\ \/ \* munmap fails: no bytes, or a fault
                 /\ IF total = 0 THEN NoFault ELSE Fault
                 /\ ret' = [ret EXCEPT ![t] = ErrAdd(@, SYSCALL_FAILED)]
                 /\ UNCHANGED mapped
              \/ /\ total > 0
                 /\ NoFault
                 /\ ret' = [ret EXCEPT ![t] = ErrAdd(@, 0)]
                 /\ mapped' = Unmapped(mapped, addr, total)
    /\ Goto(t, "d_close")
    /\ UNCHANGED <<arg, td, buf, ad, cache, registered, sessions, pending,
                   ncalls, geo>>

\* Lines 358-360: close(td) and return ret.
D_Close(t) ==
    /\ pc[t] = "d_close"
    /\ sessions' = Close(sessions, td[t])
    /\ Return(t, ret[t])
    /\ UNCHANGED <<cache, registered, mapped, pending, ncalls, nfaults, geo>>

\* ------------------------------------------------------ the specification

Next ==
    \E t \in Threads :
        \/ R_Call(t)
        \/ R_Check(t)
        \/ R_Reject(t)
        \/ R_Open(t)
        \/ R_Block(t)
        \/ R_RBuf(t)
        \/ R_Mmap(t)
        \/ R_Urbuf(t)
        \/ R_Lock(t)
        \/ R_Add(t)
        \/ R_Fill(t)
        \/ R_Close(t)
        \/ D_Call(t)
        \/ D_Open(t)
        \/ D_Lock(t)
        \/ D_Scan(t)
        \/ D_Del(t)
        \/ D_QBuf(t)
        \/ D_Urbuf(t)
        \/ D_Munmap(t)
        \/ D_Close(t)

Spec == Init /\ [][Next]_vars

\* -------------------------------------------- the resolver on its own

GeoLengths ==
    {p * PAGE_SIZE + r : p \in 0 .. GeoMaxPages, r \in {0, 1, 904}}

GeoHeights == (0 .. GeoMaxHeight) \cup {31, 32, 63, 64, 65}

GeoWidths == {0, 2048, 4096, 8192, 61440}

\* A block as TILIOC_QUERY_BLK may report it, with the caller's length.
GeoInputs ==
    {[stage |-> "in",
      blk |-> [ZeroBlock(PAGE_SIZE) EXCEPT
                 !.fmt = f,
                 !.len = IF f = TILFMT_PAGE THEN h * PAGE_SIZE ELSE 0,
                 !.width = IF f = TILFMT_PAGE THEN 0 ELSE w,
                 !.height = IF f = TILFMT_PAGE THEN 0 ELSE h],
      len |-> l] :
        f \in Formats, w \in GeoWidths, h \in GeoHeights, l \in GeoLengths}

ResolveInit == MainInit /\ geo \in GeoInputs

main == <<pc, arg, ix, size, td, bufPtr, buf, ad, ret, log, bufs,
          bufs_inited, che_mutex, registered, mapped, sessions, pending,
          ncalls, nfaults>>

\* Lines 237-268 on the block: the resolution and its two checks.
G_Resolve ==
    /\ geo.stage = "in"
    /\ geo.blk.fmt # TILFMT_PAGE => ~ResolveTraps(geo.blk, geo.len)
    /\ geo' = [stage |-> "out", blk |-> geo.blk, len |-> geo.len,
               out |-> ResolveBlock(geo.blk, geo.len),
               failed |-> FailedChecks(geo.blk,
                                       ResolveBlock(geo.blk, geo.len),
                                       geo.len)]
    /\ UNCHANGED main

\* Lines 248-264 divide by zero.
G_Trap ==
    /\ geo.stage = "in"
    /\ geo.blk.fmt # TILFMT_PAGE
    /\ ResolveTraps(geo.blk, geo.len)
    /\ geo' = [stage |-> "trap", blk |-> geo.blk, len |-> geo.len]
    /\ UNCHANGED main

ResolveNext == G_Resolve \/ G_Trap

ResolveSpec == ResolveInit /\ [][ResolveNext]_vars

\* ================================================================ claims

\* The calls that have taken a record out of the cache and still owe the
\* driver the unregistration or the unmapping.
Holding == {"d_qbuf", "d_urbuf", "d_munmap"}

\* Positions of the cache records kept for pointer p.
Entries(p) == {i \in 1 .. Len(bufs) : bufs[i].bufPtr = p}

Quiescent == \A t \in Threads : pc[t] = "idle"

\* ----------------------------------------------------------------- C1

\* C1 (as amended): of the demaps of a pointer P that a remap returned, at
\* most one succeeds.  The demap that finds P's record removes it, so that
\* while it works on the buffer the cache has no record for P and the records
\* for P are as many as the remaps of P not yet found by a demap (0 or 1); a
\* demap that finds no record returns REMAP_ERR_GENERIC without touching the
\* driver; and a demap returns 0 only when it found the record.
C1_AtMostOneDemapSucceeds ==
    /\ \A p \in DemapPtrs :
          /\ pending[p] \in {0, 1}
          /\ Cardinality(Entries(p)) = pending[p]
    /\ \A t \in Threads :
          /\ (pc[t] \in Holding /\ "cache_hit" \in log[t])
                => Entries(arg[t]) = {}
          /\ (pc[t] = "d_close" /\ "cache_miss" \in log[t])
                => /\ ret[t] = REMAP_ERR_GENERIC
                   /\ log[t] \cap {"qbuf", "urbuf", "munmap"} = {}
          /\ (pc[t] = "d_close" /\ ret[t] = 0) => "cache_hit" \in log[t]

\* Two demaps of the same pointer are at their return: the one that found
\* the record returns 0, the other found none and returns the generic error.
C1_Witness ==
    \E t, u \in Threads :
        /\ t # u
        /\ pc[t] = "d_close" /\ pc[u] = "d_close"
        /\ arg[t] = arg[u]
        /\ "cache_hit" \in log[t] /\ ret[t] = 0
        /\ "cache_miss" \in log[u] /\ ret[u] = REMAP_ERR_GENERIC
        /\ Entries(arg[t]) = {}

\* C1 as stated: exactly one demap succeeds, that is the demap that finds
\* P's record returns 0.
C1_ExactlyOneDemapSucceeds ==
    /\ C1_AtMostOneDemapSucceeds
    /\ \A t \in Threads :
          (pc[t] = "d_close" /\ "cache_hit" \in log[t]) => ret[t] = 0

\* ----------------------------------------------------------------- C2

\* C2: of concurrent demaps of one pointer exactly one gets the record and
\* the others miss.  No two calls hold a record for the same pointer or the
\* same mapped region at once, no two calls are about to unregister the same
\* buffer ID, only a call that found a record goes on to unregister and
\* unmap, and a call that missed does neither.
C2_OneDemapRecoversEntry ==
    /\ \A t, u \in Threads :
          (t # u /\ pc[t] \in Holding /\ pc[u] \in Holding)
             => /\ arg[t] # arg[u]
                /\ RoundDown(arg[t]) # RoundDown(arg[u])
                /\ (pc[t] # "d_munmap" /\ pc[u] # "d_munmap")
                      => buf[t].offset # buf[u].offset
    /\ \A t \in Threads :
          /\ pc[t] \in Holding
                => /\ "cache_hit" \in log[t]
                   /\ "cache_miss" \notin log[t]
                   /\ buf[t].offset # 0
          /\ "cache_miss" \in log[t]
                => /\ pc[t] = "d_close"
                   /\ buf[t].offset = 0
                   /\ log[t] \cap {"urbuf", "munmap"} = {}

\* Two demaps of the same pointer are past the cache: one holds the record,
\* the other missed.
C2_Witness ==
    \E t, u \in Threads :
        /\ t # u
        /\ arg[t] = arg[u]
        /\ pc[t] \in Holding /\ "cache_hit" \in log[t]
        /\ pc[u] = "d_close" /\ "cache_miss" \in log[u]

\* ----------------------------------------------------------------- C3

\* The buffer IDs that are registered with the driver and mapped.
Live == {o \in DOMAIN registered : \E b \in DOMAIN mapped : mapped[b].offset = o}

\* C3 as stated, between calls: the cache has a record for a buffer exactly
\* when the buffer is registered with the driver and mapped.
C3_EntryIffRegisteredAndMapped ==
    Quiescent =>
        /\ \A i \in 1 .. Len(bufs) :
              /\ bufs[i].tiler_id \in Live
              /\ RoundDown(bufs[i].bufPtr) \in DOMAIN mapped
        /\ \A o \in Live : \E i \in 1 .. Len(bufs) : bufs[i].tiler_id = o

\* ----------------------------------------------------------------- C4

\* C4: when the mapping fails after the registration succeeded, ReMap asks
\* the driver to unregister the buffer (TILIOC_URBUF) before it returns,
\* adds no cache record, and returns NULL.  While the unregistration is
\* still to come the buffer is registered and no cache record has its ID.
C4_MapFailureUnregisters ==
    /\ [] \A t \in Threads :
          /\ pc[t] = "r_urbuf"
                => /\ bufPtr[t] = NULL
                   /\ "mmap" \in log[t]
                   /\ log[t] \cap {"urbuf", "cache_add"} = {}
                   /\ buf[t].offset \in DOMAIN registered
                   /\ \A i \in 1 .. Len(bufs) :
                         bufs[i].tiler_id # buf[t].offset
          /\ (pc[t] = "r_close" /\ "mmap" \in log[t] /\ bufPtr[t] = NULL)
                => /\ "urbuf" \in log[t]
                   /\ "cache_add" \notin log[t]
          /\ (pc[t] \in {"r_lock", "r_add", "r_fill"}) => bufPtr[t] # NULL
    /\ [][\A t \in Threads :
            (pc[t] = "r_close" /\ pc'[t] = "idle") => ret'[t] = bufPtr[t]]_vars

\* A remap whose mapping failed is at its return: it has issued the
\* unregistration, the driver no longer has the buffer, and the pointer to
\* return is NULL.
C4_Witness ==
    \E t \in Threads :
        /\ pc[t] = "r_close"
        /\ "mmap" \in log[t] /\ "urbuf" \in log[t]
        /\ bufPtr[t] = NULL
        /\ buf[t].offset \notin DOMAIN registered
        /\ \A i \in 1 .. Len(bufs) : bufs[i].tiler_id # buf[t].offset

\* ----------------------------------------------------------------- C5

\* C5: a remap with a block count of 0 or less, or above
\* TILER_MAX_NUM_BLOCKS, returns NULL without any driver interaction: it
\* reaches the return of the range check with no session opened and nothing
\* issued, neither of its steps changes the driver or the cache, and no call
\* with such a count gets past the check.
C5_BadCountReturnsNull ==
    /\ [] \A t \in Threads :
          /\ pc[t] = "r_reject"
                => /\ arg[t] <= 0 \/ arg[t] > TILER_MAX_NUM_BLOCKS
                   /\ log[t] = {}
                   /\ td[t] = -1
                   /\ Fd(t) \notin sessions
          /\ (pc[t] \in {"r_open", "r_block", "r_rbuf", "r_mmap", "r_urbuf",
                         "r_lock", "r_add", "r_fill", "r_close"})
                => (arg[t] >= 1 /\ arg[t] <= TILER_MAX_NUM_BLOCKS)
    /\ [][\A t \in Threads :
            /\ (pc[t] = "r_check" /\ pc'[t] # "r_check"
                  /\ (arg[t] <= 0 \/ arg[t] > TILER_MAX_NUM_BLOCKS))
                  => /\ pc'[t] = "r_reject"
                     /\ UNCHANGED <<sessions, registered, mapped, bufs>>
            /\ (pc[t] = "r_reject" /\ pc'[t] # "r_reject")
                  => /\ pc'[t] = "idle"
                     /\ ret'[t] = NULL
                     /\ UNCHANGED <<sessions, registered, mapped, bufs>>]_vars

\* A remap with a count above the maximum is at the return of the range
\* check while another call has a buffer registered, mapped and cached.
C5_Witness ==
    \E t \in Threads :
        /\ pc[t] = "r_reject"
        /\ arg[t] > TILER_MAX_NUM_BLOCKS
        /\ log[t] = {}
        /\ Fd(t) \notin sessions
        /\ Len(bufs) = 1

\* ----------------------------------------------------------------- C6

\* C6: when a block's pointer translates to zero, or the block query fails
\* or returns a zero ssptr, the remap goes straight to FAIL: it has never
\* attempted TILIOC_RBUF (nor the mapping), has added no cache record, has
\* NULL to return, and closes its session when it returns.
C6_FailedBlockReturnsNull ==
    /\ [] \A t \in Threads :
          log[t] \cap {"no_ssptr", "no_block"} # {}
             => /\ pc[t] = "r_close"
                /\ bufPtr[t] = NULL
                /\ buf[t].offset = 0
                /\ log[t] \cap {"rbuf", "mmap", "cache_add"} = {}
    /\ [][\A t \in Threads :
            (pc[t] = "r_close" /\ pc'[t] = "idle")
               => /\ ret'[t] = bufPtr[t]
                  /\ td[t] \notin sessions']_vars

\* A remap of two blocks is at FAIL because the query of its second block
\* failed; its session is still open.
C6_Witness ==
    \E t \in Threads :
        /\ pc[t] = "r_close"
        /\ "no_block" \in log[t]
        /\ arg[t] = 2 /\ ix[t] = 1
        /\ "rbuf" \notin log[t]
        /\ bufPtr[t] = NULL
        /\ td[t] \in sessions

\* ----------------------------------------------------------------- C7

\* C7 as stated: a remap one of whose geometry checks failed (minimum page
\* width above the maximum, or resolved size different from the length)
\* aborts: it never registers the buffer and has NULL to return.
C7_InconsistentGeometryAborts ==
    \A t \in Threads :
        (pc[t] = "r_close" /\ log[t] \cap {"chk_width", "chk_size"} # {})
           => /\ bufPtr[t] = NULL
              /\ "rbuf" \notin log[t]

\* ----------------------------------------------------------------- C8

C9_SessionsClosed ==
    /\ sessions =
          {Fd(t) : t \in {u \in Threads :
                            pc[u] \notin {"idle", "r_check", "r_reject",
                                          "r_open", "d_open"}}}
    /\ \A t \in Threads :
          /\ pc[t] = "idle" => (td[t] \notin sessions /\ Fd(t) \notin sessions)
          /\ Fd(t) \in sessions => td[t] = Fd(t)
    /\ Quiescent => sessions = {}

\* All the calls of the budget have returned, one of them failed and one
\* left a buffer in the cache, and no session is open.
C9_Witness ==
    /\ Quiescent
    /\ ncalls = MaxCalls
    /\ nfaults >= 1
    /\ Len(bufs) >= 1
    /\ sessions = {}

\* ---------------------------------------------------------------- C10

\* C10: the cache holds at most one record per user-space pointer (and per
\* buffer ID).
C10_OneEntryPerPointer ==
    \A i, j \in 1 .. Len(bufs) :
        i # j => /\ bufs[i].bufPtr # bufs[j].bufPtr
                 /\ bufs[i].tiler_id # bufs[j].tiler_id

\* Two buffers are in the cache, under different pointers.
C10_Witness ==
    /\ Len(bufs) = 2
    /\ bufs[1].bufPtr # bufs[2].bufPtr

\* ---------------------------------------------------------------- C11

\* The program points inside remap_cache_add and remap_cache_del between
\* the lock and the unlock.
InCache == {"r_add", "d_scan", "d_del"}

\* The program points whose step is a driver call: open, TILIOC_QUERY_BLK,
\* TILIOC_RBUF, mmap, TILIOC_URBUF, TILIOC_QBUF, munmap, close.
AtDriverCall ==
    {"r_open", "r_block", "r_rbuf", "r_mmap", "r_urbuf", "r_close",
     "d_open", "d_qbuf", "d_urbuf", "d_munmap", "d_close"}

\* C11: the cache mutex is held only during one cache operation.  Its holder
\* is exactly the thread between the lock and the unlock of remap_cache_add
\* or remap_cache_del, so no thread at a driver call holds it, no two
\* threads are inside the cache at once, and it is free whenever no cache
\* operation is running, in particular between calls.
C11_MutexOnlyInCache ==
    /\ che_mutex \in Threads \cup {NoThread}
    /\ \A t \in Threads :
          /\ che_mutex = t <=> pc[t] \in InCache
          /\ pc[t] \in AtDriverCall => che_mutex # t
    /\ (\A t \in Threads : pc[t] \notin InCache) => che_mutex = NoThread

\* One thread removes a record under the mutex while the other is at a
\* driver call of its own and waits for nothing.
C11_Witness ==
    \E t, u \in Threads :
        /\ pc[t] = "d_del" /\ che_mutex = t /\ buf[t].offset # 0
        /\ pc[u] \in {"r_mmap", "d_qbuf"}

\* ---------------------------------------------------------------- C12

\* C12: in demap, once the buffer query has succeeded, the unmapping is
\* attempted whatever TILIOC_URBUF returned, and the status is 0 only if the
\* unregistration and the unmapping both succeeded.  The step of TILIOC_URBUF
\* always leads to munmap, with ret 0 exactly when the driver dropped the
\* buffer; the step of munmap leaves ret 0 exactly when ret was 0 and the
\* region is gone, and keeps an earlier error; close returns that ret.
C12_UnmapAfterUnregister ==
    /\ [] \A t \in Threads :
             pc[t] = "d_munmap"
                => /\ {"qbuf", "urbuf"} \subseteq log[t]
                   /\ "munmap" \notin log[t]
    /\ [][\A t \in Threads :
            /\ (pc[t] = "d_urbuf" /\ pc'[t] # "d_urbuf")
                  => /\ pc'[t] = "d_munmap"
                     /\ ret'[t] = 0 <=> buf[t].offset \notin DOMAIN registered'
            /\ (pc[t] = "d_munmap" /\ pc'[t] # "d_munmap")
                  => /\ pc'[t] = "d_close"
                     /\ "munmap" \in log'[t]
                     /\ ret'[t] = 0 <=>
                           /\ ret[t] = 0
                           /\ RoundDown(arg[t]) \notin DOMAIN mapped'
                     /\ ret[t] # 0 => ret'[t] = ret[t]
            /\ (pc[t] = "d_close" /\ pc'[t] = "idle") => ret'[t] = ret[t]]_vars

\* A demap is at its return after a failed unregistration and a successful
\* unmapping: the buffer is still registered, the region is gone, and the
\* status is the error.
C12_Witness ==
    \E t \in Threads :
        /\ pc[t] = "d_close"
        /\ "munmap" \in log[t]
        /\ ret[t] = SYSCALL_FAILED
        /\ buf[t].offset \in DOMAIN registered
        /\ RoundDown(arg[t]) \notin DOMAIN mapped

\* ---------------------------------------------------------------- C13

\* The mapped region at base b is out of the module's reach: no cache record
\* points into it, and no call is about to add one or holds one it removed.
Orphan(b) ==
    /\ b \in DOMAIN mapped
    /\ \A i \in 1 .. Len(bufs) : RoundDown(bufs[i].bufPtr) # b
    /\ \A t \in Threads :
          pc[t] \in Holding \cup {"r_lock", "r_add"}
             => RoundDown(bufPtr[t]) # b

C14_DemapMissChangesNothing ==
    /\ [] \A t \in Threads :
             /\ (pc[t] = "d_del" /\ Entries(bufPtr[t]) = {})
                   => buf[t].offset = 0
             /\ (pc[t] = "d_close" /\ "cache_miss" \in log[t])
                   => /\ ret[t] = REMAP_ERR_GENERIC
                      /\ log[t] \cap {"qbuf", "urbuf", "munmap"} = {}
                      /\ td[t] \in sessions
    /\ [][\A t \in Threads :
            /\ (pc[t] \in {"d_open", "d_lock", "d_scan"} /\ pc'[t] # pc[t])
                  => UNCHANGED <<bufs, registered, mapped>>
            /\ (pc[t] = "d_scan" /\ pc'[t] # "d_scan"
                  /\ Entries(bufPtr[t]) = {})
                  => buf'[t].offset = 0
            /\ (pc[t] = "d_del" /\ pc'[t] # "d_del" /\ Entries(bufPtr[t]) = {})
                  => /\ pc'[t] = "d_close"
                     /\ "cache_miss" \in log'[t]
                     /\ UNCHANGED <<bufs, registered, mapped>>
            /\ (pc[t] = "d_close" /\ pc'[t] = "idle"
                  /\ "cache_miss" \in log[t])
                  => /\ ret'[t] = REMAP_ERR_GENERIC
                     /\ td[t] \notin sessions'
                     /\ UNCHANGED <<bufs, registered, mapped>>]_vars

\* A demap of a pointer that was never returned is at its return as a miss
\* while the cache holds another pointer's record, whose buffer is
\* registered and mapped.
C14_Witness ==
    \E t \in Threads :
        /\ pc[t] = "d_close"
        /\ "cache_miss" \in log[t]
        /\ ret[t] = REMAP_ERR_GENERIC
        /\ Len(bufs) = 1
        /\ bufs[1].bufPtr # arg[t]
        /\ RoundDown(bufs[1].bufPtr) = RoundDown(arg[t])
        /\ bufs[1].tiler_id \in DOMAIN registered
        /\ RoundDown(bufs[1].bufPtr) \in DOMAIN mapped

\* ---------------------------------------------------------------- C15

\* C15: the stride resolution of a pixel block is a function of the reported
\* height, the format and the length alone, and takes the narrower page
\* width: with n = ceil(length / (reported height * PAGE_SIZE)) the resolved
\* block has height = length / PAGE_SIZE / n, width = PAGE_SIZE * n / bytes
\* per pixel and stride = width, whatever the reported width and
\* max_page_width are; format and ssptr are kept.
C15_ResolutionTakesNarrower ==
    (geo.stage = "out" /\ geo.blk.fmt # TILFMT_PAGE) =>
        LET column == geo.blk.height * PAGE_SIZE
            n == (geo.len + column - 1) \div column
            bytes == IF geo.blk.fmt = TILFMT_32BIT THEN 4
                     ELSE IF geo.blk.fmt = TILFMT_16BIT THEN 2 ELSE 1
        IN  /\ geo.out.height = (geo.len \div PAGE_SIZE) \div n
            /\ geo.out.width = (PAGE_SIZE * n) \div bytes
            /\ geo.out.stride = geo.out.width
            /\ geo.out.fmt = geo.blk.fmt
            /\ geo.out.ssptr = geo.blk.ssptr

\* A 32-bit block whose two page widths differ (1 and more than 1) has been
\* resolved to the narrower: one page, 1024 pixels wide.
C15_Witness ==
    /\ geo.stage = "out"
    /\ geo.blk.fmt = TILFMT_32BIT
    /\ min_page_width(geo.blk, geo.len) = 1
    /\ max_page_width(geo.blk, geo.len) > 1
    /\ geo.out.width = 1024
    /\ geo.out.height > 1

\* ---------------------------------------------------------------- C16

\* Bytes of the blocks before block k (blocks are numbered from 1 here): a
\* page block counts its length, a pixel block its height times its row
\* of width pixels rounded up to pages.
RECURSIVE BytesBefore(_, _)
BytesBefore(blocks, k) ==
    IF k <= 1 THEN 0
    ELSE BytesBefore(blocks, k - 1) +
         (IF blocks[k - 1].fmt = TILFMT_PAGE
          THEN blocks[k - 1].len
          ELSE blocks[k - 1].height * def_stride(blocks[k - 1].width *
                                                   def_bpp(blocks[k - 1].fmt)))

\* C16: in a successful remap of n blocks the region mapped has the sum of
\* the blocks' sizes, at the buffer's ID; the pointer P to return is the
\* region's base plus the sub-page offset of the first block's ssptr; and
\* block k's pointer is P plus the sizes of the blocks before it, for page
\* blocks the lengths the caller passed.  The call returns P.
C16_PointersAreRunningOffsets ==
    /\ [] \A t \in Threads :
             /\ pc[t] \in {"r_lock", "r_add"}
                   => LET b == RoundDown(bufPtr[t])
                      IN  /\ b \in DOMAIN mapped
                          /\ Len(buf[t].blocks) = arg[t]
                          /\ mapped[b].len =
                                BytesBefore(buf[t].blocks, arg[t] + 1)
                          /\ mapped[b].offset = buf[t].offset
                          /\ bufPtr[t] =
                                b + (buf[t].blocks[1].ssptr % PAGE_SIZE)
             /\ (pc[t] = "r_close" /\ "cache_add" \in log[t])
                   => /\ bufPtr[t] # NULL
                      /\ Len(buf[t].blocks) = arg[t]
                      /\ \A k \in 1 .. arg[t] :
                            buf[t].blocks[k].ptr =
                               bufPtr[t] + BytesBefore(buf[t].blocks, k)
    /\ [][\A t \in Threads :
            (pc[t] = "r_close" /\ pc'[t] = "idle") => ret'[t] = bufPtr[t]]_vars

\* A remap of two page blocks of 4096 bytes each, the first 16 bytes into its
\* page, is at its return: P is 16 bytes past a page boundary, the first
\* block is at P and the second at P + 4096.
C16_Witness ==
    \E t \in Threads :
        /\ pc[t] = "r_close"
        /\ "cache_add" \in log[t]
        /\ arg[t] = 2
        /\ buf[t].blocks[1].fmt = TILFMT_PAGE /\ buf[t].blocks[1].len = 4096
        /\ buf[t].blocks[2].fmt = TILFMT_PAGE
        /\ bufPtr[t] % PAGE_SIZE = 16
        /\ buf[t].blocks[1].ptr = bufPtr[t]
        /\ buf[t].blocks[2].ptr = bufPtr[t] + 4096

\* ---------------------------------------------------------------- C17

\* C17: demap unmaps exactly the region its remap mapped.  When a demap is
\* about to unmap, the page-aligned floor of its pointer is the base of a
\* mapped region, that region is the one mapped for the buffer ID the cache
\* gave, and its length is the sum of the sizes of the blocks the query
\* returned; the munmap that succeeds removes that region whole and no
\* other.
C17_UnmapsWhatWasMapped ==
    /\ [] \A t \in Threads :
             pc[t] = "d_munmap"
                => LET b == RoundDown(bufPtr[t])
                   IN  /\ bufPtr[t] = arg[t]
                       /\ b \in DOMAIN mapped
                       /\ mapped[b].offset = buf[t].offset
                       /\ mapped[b].len =
                             BytesBefore(buf[t].blocks, buf[t].num_blocks + 1)
    /\ [][\A t \in Threads :
            (pc[t] = "d_munmap" /\ pc'[t] # "d_munmap")
               => /\ size'[t] = mapped[RoundDown(arg[t])].len
                  /\ bufPtr'[t] = RoundDown(arg[t])
                  /\ \/ UNCHANGED mapped
                     \/ /\ DOMAIN mapped' = DOMAIN mapped \ {RoundDown(arg[t])}
                        /\ \A b \in DOMAIN mapped' : mapped'[b] = mapped[b]]_vars

\* A demap of a pointer 16 bytes past a page boundary is about to unmap a
\* buffer of two blocks while another region is mapped as well.
C17_Witness ==
    \E t \in Threads :
        /\ pc[t] = "d_munmap"
        /\ arg[t] % PAGE_SIZE = 16
        /\ buf[t].num_blocks = 2
        /\ Cardinality(DOMAIN mapped) = 2

\* ---------------------------------------------------------------- C18

\* C18 as stated: for every pixel block with reported height of 1 or more
\* and length of 1 or more, max_alloc_size is positive, min_alloc_size is
\* positive without wrapping around, min_page_width is 1 or more, and the
\* resolution, once run, has divided by no zero.
C18_DivisorsNonzero ==
    (geo.stage \in {"out", "trap"} /\ geo.blk.fmt # TILFMT_PAGE
        /\ geo.blk.height >= 1 /\ geo.len >= 1) =>
        /\ geo.blk.height * PAGE_SIZE > 0
        /\ geo.blk.height * PAGE_SIZE
              - (IF geo.blk.fmt = TILFMT_8BIT THEN 63 ELSE 31) * PAGE_SIZE > 0
        /\ min_page_width(geo.blk, geo.len) >= 1
        /\ geo.stage # "trap"

\* ---------------------------------------------------------------- C19

\* C19: every record of the cache has a nonzero buffer ID, got from a
\* TILIOC_RBUF that succeeded followed by an mmap that succeeded, so the 0
\* that remap_cache_del returns always means that no record was found.  A
\* remap past its registration has a nonzero buf.offset; the remap that adds
\* a record has registered and mapped the buffer under that ID; and a demap
\* that has scanned the cache has ID 0 exactly when the cache has no record
\* for its pointer.
C19_StoredIdsNonzero ==
    /\ \A i \in 1 .. Len(bufs) :
          /\ bufs[i].tiler_id # 0
          /\ bufs[i].bufPtr # NULL
    /\ \A t \in Threads :
          /\ pc[t] \in {"r_mmap", "r_urbuf", "r_lock", "r_add", "r_fill"}
                => /\ buf[t].offset # 0
                   /\ "rbuf" \in log[t]
          /\ pc[t] = "r_add"
                => /\ {"rbuf", "mmap"} \subseteq log[t]
                   /\ bufPtr[t] # NULL
                   /\ buf[t].offset \in DOMAIN registered
                   /\ RoundDown(bufPtr[t]) \in DOMAIN mapped
                   /\ mapped[RoundDown(bufPtr[t])].offset = buf[t].offset
          /\ pc[t] = "d_del"
                => (buf[t].offset = 0 <=> Entries(bufPtr[t]) = {})

\* A remap has just added its record, with a nonzero ID, while a demap of
\* another pointer has scanned the cache and got 0.
C19_Witness ==
    \E t, u \in Threads :
        /\ pc[t] = "r_fill"
        /\ buf[t].offset # 0
        /\ \E i \in 1 .. Len(bufs) :
              bufs[i] = [bufPtr |-> bufPtr[t], tiler_id |-> buf[t].offset]
        /\ pc[u] = "d_del"
        /\ buf[u].offset = 0
        /\ Entries(bufPtr[u]) = {}

====
